---- MODULE Spec2Model ----
(***************************************************************************)
(* Model of src/src/list.rs: List<T>, the wrapper around the native GList  *)
(* doubly-linked list.  The state is the native heap (nodes with data,     *)
(* next and prev words, and the boxes that hold the elements), the List    *)
(* handles of the program with their `pointer` field, and the result of    *)
(* the last call.  A node that was passed to g_list_free is freed memory:  *)
(* the model never reads it, and an operation that would read or write it  *)
(* has undefined behaviour, modelled as a nondeterministic outcome.        *)
(***************************************************************************)
EXTENDS Integers, Sequences, FiniteSets

\* Bound of the model: the native nodes ever allocated.
MaxNodes == 3
\* The calls of next() followed on a cursor that has returned None.
MaxNones == 2

NULL == 0
Nodes == 1..MaxNodes
Ptr == Nodes \cup {NULL}
Values == {1, 2}
Handles == {1, 2}
\* insert takes an i32: the positions around the list, and the ends of i32.
MaxI32 == 2147483647
MinI32 == -MaxI32 - 1
Positions == (-1..MaxNodes) \cup {MinI32, MaxI32}
Indices == 0..MaxNodes
\* A usize index of the 64-bit host, as its two 32-bit words: the index is
\* hi * 2^32 + lo.
USizes == [hi : {0, 1}, lo : Indices]

VARIABLES
    hstate,   \* handle -> "dead" | "live"
    hptr,     \* handle -> List.pointer
    node,     \* node -> [data, next, prev]: the native GList cells
    nnode,    \* number of nodes allocated so far (addresses are not reused)
    nfreed,   \* nodes passed to the native free routine
    box,      \* sequence of the boxed elements: box[b] is the value in box b
    bfreed,   \* boxes that were deallocated
    cloneOf,  \* handle -> the handle it was cloned from (0: none)
    last,     \* the last call: what it was applied to and what it returned
    ub,       \* "none", or the undefined behaviour the program ran into
    cur       \* the Elem or RevElem in use: its list, its pointer, its calls

vars == <<hstate, hptr, node, nnode, nfreed, box, bfreed, cloneOf, last, ub, cur>>

Blank == [data |-> NULL, next |-> NULL, prev |-> NULL]

\* The nodes that are allocated (valid to read and write).
Ok(n, fr) == (1..n) \ fr

RECURSIVE SeqsUpTo(_)
SeqsUpTo(k) == IF k = 0 THEN {<<>>}
               ELSE SeqsUpTo(k - 1) \cup [1..k -> Values]

Range(s) == {s[i] : i \in 1..Len(s)}

Rev(s) == [i \in 1..Len(s) |-> s[Len(s) + 1 - i]]

(***************************************************************************)
(* Walks over the native chain.  Fwd follows next, Bwd follows prev; both  *)
(* stop at NULL, at a node that is not allocated, or after `fuel` nodes,   *)
(* and return the allocated nodes they visited.                            *)
(***************************************************************************)
RECURSIVE Fwd(_, _, _, _)
Fwd(nd, ok, p, fuel) ==
    IF p = NULL \/ p \notin ok \/ fuel = 0 THEN <<>>
    ELSE <<p>> \o Fwd(nd, ok, nd[p].next, fuel - 1)

RECURSIVE Bwd(_, _, _, _)
Bwd(nd, ok, p, fuel) ==
    IF p = NULL \/ p \notin ok \/ fuel = 0 THEN <<>>
    ELSE <<p>> \o Bwd(nd, ok, nd[p].prev, fuel - 1)

Full == MaxNodes + 1

\* The pointer a walk w that started at p stopped on: NULL, or a freed node.
FwdStop(nd, p, w) == IF w = <<>> THEN p ELSE nd[w[Len(w)]].next
BwdStop(nd, p, w) == IF w = <<>> THEN p ELSE nd[w[Len(w)]].prev

\* A forward (backward) walk from p runs into freed memory.
FwdBad(nd, ok, p) == FwdStop(nd, p, Fwd(nd, ok, p, Full)) # NULL
BwdBad(nd, ok, p) == BwdStop(nd, p, Bwd(nd, ok, p, Full)) # NULL

\* g_list_last / g_list_first on a chain whose walk is clean.
GListLast(nd, ok, p) ==
    LET w == Fwd(nd, ok, p, Full) IN IF w = <<>> THEN NULL ELSE w[Len(w)]
GListFirst(nd, ok, p) ==
    LET w == Bwd(nd, ok, p, Full) IN IF w = <<>> THEN NULL ELSE w[Len(w)]

\* The values a sequence of nodes holds, read through the data pointers.
ValsOf(nd, bx, w) == [i \in 1..Len(w) |-> bx[nd[w[i]].data]]
BoxesOf(nd, w) == [i \in 1..Len(w) |-> nd[w[i]].data]

(***************************************************************************)
(* The native list routines the wrapper calls through ffi, on a heap nd    *)
(* whose allocated nodes are ok.  Each is applied only where its walk      *)
(* stays inside allocated memory; `new` is the node the routine allocates. *)
(* They return the heap and the pointer the native routine returns.        *)
(***************************************************************************)
GListAppend(nd, ok, list, new, data) ==
    LET lst == GListLast(nd, ok, list)
        nd1 == [nd EXCEPT ![new] = [data |-> data, next |-> NULL, prev |-> lst]]
    IN  IF list = NULL THEN [nd |-> nd1, ptr |-> new]
        ELSE [nd |-> [nd1 EXCEPT ![lst].next = new], ptr |-> list]

GListPrepend(nd, ok, list, new, data) ==
    LET pv == IF list = NULL THEN NULL ELSE nd[list].prev
        nd1 == [nd EXCEPT ![new] = [data |-> data, next |-> list, prev |-> pv]]
        nd2 == IF pv = NULL THEN nd1 ELSE [nd1 EXCEPT ![pv].next = new]
    IN  IF list = NULL THEN [nd |-> nd1, ptr |-> new]
        ELSE [nd |-> [nd2 EXCEPT ![list].prev = new], ptr |-> new]

\* g_list_nth: the node `n` links after list, NULL when the chain is shorter.
\* The nodes a walk of n links visits: n + 1, and never more than a heap of
\* MaxNodes nodes can chain before the walk meets the end.
Visits(n) == IF n < MaxNodes THEN n + 1 ELSE Full

GListNth(nd, ok, list, n) ==
    LET w == Fwd(nd, ok, list, Visits(n))
    IN  IF Len(w) = Visits(n) THEN w[Visits(n)] ELSE NULL

GListInsert(nd, ok, list, new, data, position) ==
    IF position < 0 THEN GListAppend(nd, ok, list, new, data)
    ELSE IF position = 0 THEN GListPrepend(nd, ok, list, new, data)
    ELSE LET tmp == GListNth(nd, ok, list, position)
         IN  IF tmp = NULL THEN GListAppend(nd, ok, list, new, data)
             ELSE LET pv == nd[tmp].prev
                      nd1 == [nd EXCEPT ![new] = [data |-> data, next |-> tmp, prev |-> pv]]
                      nd2 == IF pv = NULL THEN nd1 ELSE [nd1 EXCEPT ![pv].next = new]
                  IN  [nd |-> [nd2 EXCEPT ![tmp].prev = new], ptr |-> list]

GListConcat(nd, ok, list1, list2) ==
    LET tmp == GListLast(nd, ok, list1)
        nd1 == IF tmp = NULL THEN nd ELSE [nd EXCEPT ![tmp].next = list2]
    IN  IF list2 = NULL THEN [nd |-> nd, ptr |-> list1]
        ELSE [nd |-> [nd1 EXCEPT ![list2].prev = tmp],
              ptr |-> IF tmp = NULL THEN list2 ELSE list1]

GListReverse(nd, ok, list) ==
    LET w == Fwd(nd, ok, list, Full)
    IN  [nd |-> [n \in Nodes |->
                   IF n \in Range(w)
                   THEN [data |-> nd[n].data, next |-> nd[n].prev, prev |-> nd[n].next]
                   ELSE nd[n]],
         ptr |-> IF w = <<>> THEN NULL ELSE w[Len(w)]]

GListLength(nd, ok, list) == Len(Fwd(nd, ok, list, Full))

\* g_list_copy: one new node per node from list on, holding the same data word.
GListCopy(nd, ok, list, n) ==
    LET w == Fwd(nd, ok, list, Full)
        k == Len(w)
    IN  [nd |-> [m \in Nodes |->
                   IF m \in (n + 1)..(n + k)
                   THEN [data |-> nd[w[m - n]].data,
                         next |-> IF m = n + k THEN NULL ELSE m + 1,
                         prev |-> IF m = n + 1 THEN NULL ELSE m - 1]
                   ELSE nd[m]],
         ptr |-> IF k = 0 THEN NULL ELSE n + 1,
         used |-> k]

\* g_list_free: every node from list on is handed to the allocator; `twice`
\* is the already freed node the walk runs into, if any.
GListFree(nd, ok, list) ==
    LET w == Fwd(nd, ok, list, Full)
    IN  [nd |-> [n \in Nodes |-> IF n \in Range(w) THEN Blank ELSE nd[n]],
         freed |-> Range(w),
         twice |-> FwdStop(nd, list, w)]

(***************************************************************************)
(* The methods of List<T>, as functions of the heap and of self.pointer.   *)
(* Each returns the heap and the value the method stores in self.pointer.  *)
(***************************************************************************)
\* A slip in append: the element goes through g_list_prepend.
ListAppendPrepends(nd, ok, ptr, new, data) == GListPrepend(nd, ok, ptr, new, data)

ListAppend(nd, ok, ptr, new, data) == GListAppend(nd, ok, ptr, new, data)

\* A slip in prepend: the element is put at the tail.
ListPrependAppends(nd, ok, ptr, new, data) == GListAppend(nd, ok, ptr, new, data)

ListPrepend(nd, ok, ptr, new, data) == GListPrepend(nd, ok, ptr, new, data)

\* A slip in insert: a negative position puts the element at the head.
ListInsertNegativeAtHead(nd, ok, ptr, new, data, position) ==
    IF position < 0 THEN GListPrepend(nd, ok, ptr, new, data)
    ELSE GListInsert(nd, ok, ptr, new, data, position)

ListInsert(nd, ok, ptr, new, data, position) ==
    GListInsert(nd, ok, ptr, new, data, position)

\* concat drops the pointer g_list_concat returns: self.pointer is kept.
ListConcat(nd, ok, ptr, other) ==
    [nd |-> GListConcat(nd, ok, ptr, other).nd, ptr |-> ptr]

\* A slip in reverse: the pointer g_list_reverse returns is not stored.
ListReverseKeepsPointer(nd, ok, ptr) ==
    [nd |-> GListReverse(nd, ok, ptr).nd, ptr |-> ptr]

ListReverse(nd, ok, ptr) == GListReverse(nd, ok, ptr)

ListLen(nd, ok, ptr) == GListLength(nd, ok, ptr)

\* A slip in clone: the list's own pointer is wrapped, without the copy.
ListCloneAliases(nd, ok, ptr, n) == [nd |-> nd, ptr |-> ptr, used |-> 0]

\* clone wraps the pointer g_list_copy returns.
ListClone(nd, ok, ptr, n) == GListCopy(nd, ok, ptr, n)

\* clear and drop call g_list_free and leave self.pointer as it is.
ListFree(nd, ok, ptr) == GListFree(nd, ok, ptr)

\* extend: append every element of values, in order; b0 + i is the box of the
\* i-th element and n0 + i its node.
RECURSIVE ListExtend(_, _, _, _, _, _)
ListExtend(nd, ok, ptr, n0, b0, k) ==
    IF k = 0 THEN [nd |-> nd, ptr |-> ptr]
    ELSE LET r == ListExtend(nd, ok, ptr, n0, b0, k - 1)
         IN  ListAppend(r.nd, ok \cup (n0 + 1)..(n0 + k - 1), r.ptr, n0 + k, b0 + k)

\* iter() starts its cursor at g_list_first(pointer) and next() follows next;
\* rev_iter() starts at g_list_last(pointer) and next() follows prev.
IterNodes(nd, ok, ptr) == Fwd(nd, ok, GListFirst(nd, ok, ptr), Full)
RevIterNodes(nd, ok, ptr) == Bwd(nd, ok, GListLast(nd, ok, ptr), Full)
IterBad(nd, ok, ptr) ==
    BwdBad(nd, ok, ptr) \/ FwdBad(nd, ok, GListFirst(nd, ok, ptr))
RevIterBad(nd, ok, ptr) ==
    FwdBad(nd, ok, ptr) \/ BwdBad(nd, ok, GListLast(nd, ok, ptr))

\* The sequence handle h yields through iter() / rev_iter() in this state.
IterSeq(h) == ValsOf(node, box, IterNodes(node, Ok(nnode, nfreed), hptr[h]))
RevIterSeq(h) == ValsOf(node, box, RevIterNodes(node, Ok(nnode, nfreed), hptr[h]))

\* self.pointer is null or the head of a chain that lies in allocated memory.
WellFormed(nd, ok, ptr) ==
    ptr = NULL \/ (ptr \in ok /\ nd[ptr].prev = NULL /\ ~FwdBad(nd, ok, ptr))
Intact(h) == hstate[h] = "live" /\ WellFormed(node, Ok(nnode, nfreed), hptr[h])

\* The record of a call: the method, the handle it was called on, its other
\* handle, its element or sequence argument, its position or index argument
\* (pos, and hi for the upper word of a usize), and the outcome.
NoLast == [op |-> "init", h |-> 0, g |-> 0, arg |-> <<>>, pos |-> 0, hi |-> 0,
           kind |-> "unit", val |-> 0]
Called(op, h) == [NoLast EXCEPT !.op = op, !.h = h]

\* One cursor is followed at a time.  It borrows its list, which therefore
\* cannot change while the cursor is in use; the cursor is let go before the
\* next call on a list.  yielded and nones count the calls of next() that
\* returned Some and None.
NoCur == [h |-> 0, dir |-> "none", ptr |-> NULL, yielded |-> 0, nones |-> 0]

Unlink(h) == [x \in Handles |-> IF x = h \/ cloneOf[x] = h THEN 0 ELSE cloneOf[x]]

Init ==
    /\ hstate = [h \in Handles |-> "dead"]
    /\ hptr = [h \in Handles |-> NULL]
    /\ node = [n \in Nodes |-> Blank]
    /\ nnode = 0
    /\ nfreed = {}
    /\ box = <<>>
    /\ bfreed = {}
    /\ cloneOf = [h \in Handles |-> 0]
    /\ last = NoLast
    /\ ub = "none"
    /\ cur = NoCur

\* A call on h that reads or writes freed memory: the behaviour is undefined.
\* The pointer the native routine hands back (when the method stores one) is
\* whatever it computed from freed memory.
Undefined(op, h, stores) ==
    /\ ub' = "use_after_free"
    /\ \E p \in (IF stores THEN Ptr ELSE {hptr[h]}) : hptr' = [hptr EXCEPT ![h] = p]
    /\ last' = [Called(op, h) EXCEPT !.kind = "undefined"]
    /\ cur' = NoCur
    /\ UNCHANGED <<hstate, node, nnode, nfreed, box, bfreed, cloneOf>>

\* List::new
CallNew(h) ==
    /\ ub = "none" /\ hstate[h] = "dead"
    /\ hstate' = [hstate EXCEPT ![h] = "live"]
    /\ hptr' = [hptr EXCEPT ![h] = NULL]
    /\ cloneOf' = Unlink(h)
    /\ last' = Called("new", h)
    /\ cur' = NoCur
    /\ UNCHANGED <<node, nnode, nfreed, box, bfreed, ub>>

\* List::from_vec / from_slice / from_iter: new() and extend()
CallFromVec(h, values) ==
    /\ ub = "none" /\ hstate[h] = "dead"
    /\ nnode + Len(values) <= MaxNodes
    /\ LET r == ListExtend(node, Ok(nnode, nfreed), NULL, nnode, Len(box), Len(values))
       IN  /\ node' = r.nd
           /\ hptr' = [hptr EXCEPT ![h] = r.ptr]
    /\ hstate' = [hstate EXCEPT ![h] = "live"]
    /\ nnode' = nnode + Len(values)
    /\ box' = box \o values
    /\ cloneOf' = Unlink(h)
    /\ last' = [Called("from_vec", h) EXCEPT !.arg = values]
    /\ cur' = NoCur
    /\ UNCHANGED <<nfreed, bfreed, ub>>

\* The common shape of append, prepend and insert: r is the method's result.
Stored(op, h, v, position, r) ==
    /\ node' = r.nd
    /\ hptr' = [hptr EXCEPT ![h] = r.ptr]
    /\ nnode' = nnode + 1
    /\ box' = Append(box, v)
    /\ last' = [Called(op, h) EXCEPT !.arg = <<v>>, !.pos = position]
    /\ cur' = NoCur
    /\ UNCHANGED <<hstate, nfreed, bfreed, cloneOf, ub>>

\* List::append
CallAppend(h, v) ==
    /\ ub = "none" /\ hstate[h] = "live" /\ nnode < MaxNodes
    /\ LET ok == Ok(nnode, nfreed)
       IN  IF FwdBad(node, ok, hptr[h]) THEN Undefined("append", h, TRUE)
           ELSE Stored("append", h, v, 0,
                       ListAppend(node, ok, hptr[h], nnode + 1, Len(box) + 1))

\* g_list_prepend touches the node it is given and that node's predecessor.
PrependBad(nd, ok, ptr) ==
    ptr # NULL /\ (ptr \notin ok \/ (nd[ptr].prev # NULL /\ nd[ptr].prev \notin ok))

\* List::prepend
CallPrepend(h, v) ==
    /\ ub = "none" /\ hstate[h] = "live" /\ nnode < MaxNodes
    /\ LET ok == Ok(nnode, nfreed)
       IN  IF PrependBad(node, ok, hptr[h]) THEN Undefined("prepend", h, TRUE)
           ELSE Stored("prepend", h, v, 0,
                       ListPrepend(node, ok, hptr[h], nnode + 1, Len(box) + 1))

\* g_list_insert walks `position` links (g_list_nth), or the whole chain when
\* it appends.
InsertBad(nd, ok, ptr, position) ==
    IF position < 0 THEN FwdBad(nd, ok, ptr)
    ELSE IF position = 0 THEN PrependBad(nd, ok, ptr)
    ELSE LET w == Fwd(nd, ok, ptr, Visits(position))
         IN  Len(w) < Visits(position) /\ FwdStop(nd, ptr, w) # NULL

\* List::insert
CallInsert(h, v, position) ==
    /\ ub = "none" /\ hstate[h] = "live" /\ nnode < MaxNodes
    /\ LET ok == Ok(nnode, nfreed)
       IN  IF InsertBad(node, ok, hptr[h], position) THEN Undefined("insert", h, TRUE)
           ELSE Stored("insert", h, v, position,
                       ListInsert(node, ok, hptr[h], nnode + 1, Len(box) + 1, position))

\* List::reverse
CallReverse(h) ==
    /\ ub = "none" /\ hstate[h] = "live"
    /\ LET ok == Ok(nnode, nfreed)
       IN  IF FwdBad(node, ok, hptr[h]) THEN Undefined("reverse", h, TRUE)
           ELSE LET r == ListReverse(node, ok, hptr[h])
                IN  /\ node' = r.nd
                    /\ hptr' = [hptr EXCEPT ![h] = r.ptr]
                    /\ last' = Called("reverse", h)
                    /\ cur' = NoCur
                    /\ UNCHANGED <<hstate, nnode, nfreed, box, bfreed, cloneOf, ub>>

\* The outcome of g_list_free(ptr) on the heap nd: the nodes of the walk are
\* freed; running into a node that is already free frees it a second time.
Freed(nd, ptr) ==
    LET f == ListFree(nd, Ok(nnode, nfreed), ptr)
    IN  /\ node' = f.nd
        /\ nfreed' = nfreed \cup f.freed
        /\ ub' = IF f.twice # NULL THEN "double_free" ELSE "none"

\* List::concat, and the drop of its argument when concat returns
CallConcat(a, b) ==
    /\ ub = "none" /\ a # b /\ hstate[a] = "live" /\ hstate[b] = "live"
    /\ LET ok == Ok(nnode, nfreed)
       IN  IF FwdBad(node, ok, hptr[a]) \/ (hptr[b] # NULL /\ hptr[b] \notin ok)
           THEN Undefined("concat", a, FALSE)
           ELSE LET r == ListConcat(node, ok, hptr[a], hptr[b])
                IN  /\ Freed(r.nd, hptr[b])
                    /\ hptr' = [hptr EXCEPT ![a] = r.ptr, ![b] = NULL]
                    /\ hstate' = [hstate EXCEPT ![b] = "dead"]
                    /\ cloneOf' = [x \in Handles |-> 0]
                    /\ last' = [Called("concat", a) EXCEPT !.g = b]
                    /\ cur' = NoCur
                    /\ UNCHANGED <<nnode, box, bfreed>>

\* List::clear
CallClear(h) ==
    /\ ub = "none" /\ hstate[h] = "live"
    /\ Freed(node, hptr[h])
    /\ cloneOf' = Unlink(h)
    /\ last' = Called("clear", h)
    /\ cur' = NoCur
    /\ UNCHANGED <<hstate, hptr, nnode, box, bfreed>>

\* Clone for List
CallClone(src, dst) ==
    /\ ub = "none" /\ src # dst /\ hstate[src] = "live" /\ hstate[dst] = "dead"
    /\ LET ok == Ok(nnode, nfreed)
       IN  IF FwdBad(node, ok, hptr[src]) THEN Undefined("clone", src, FALSE)
           ELSE LET r == ListClone(node, ok, hptr[src], nnode)
                IN  /\ nnode + r.used <= MaxNodes
                    /\ node' = r.nd
                    /\ nnode' = nnode + r.used
                    /\ hptr' = [hptr EXCEPT ![dst] = r.ptr]
                    /\ hstate' = [hstate EXCEPT ![dst] = "live"]
                    /\ cloneOf' = [Unlink(dst) EXCEPT ![dst] = src]
                    /\ last' = [Called("clone", src) EXCEPT !.g = dst]
                    /\ cur' = NoCur
                    /\ UNCHANGED <<nfreed, box, bfreed, ub>>

\* Drop for List
CallDrop(h) ==
    /\ ub = "none" /\ hstate[h] = "live"
    /\ Freed(node, hptr[h])
    /\ hstate' = [hstate EXCEPT ![h] = "dead"]
    /\ hptr' = [hptr EXCEPT ![h] = NULL]
    /\ cloneOf' = Unlink(h)
    /\ last' = Called("drop", h)
    /\ cur' = NoCur
    /\ UNCHANGED <<nnode, box, bfreed>>

(***************************************************************************)
(* The calls that only read.  Each returns a set of outcomes: one outcome  *)
(* where the behaviour is defined, and, where the call reads freed memory  *)
(* or dereferences a null node pointer, every outcome a build can produce. *)
(* An outcome is a "count", a "ref" to an element, a "null" reference, a   *)
(* "fault" (the dereference trapped) or, never in this code, an "error"    *)
(* (an explicit failure reported to the caller).                           *)
(***************************************************************************)
Count(n) == [kind |-> "count", val |-> n]
Ref(v) == [kind |-> "ref", val |-> v]
NullRef == [kind |-> "null", val |-> 0]
Fault == [kind |-> "fault", val |-> 0]
Garbage == {Ref(v) : v \in Values} \cup {NullRef}
AnyCount == {Count(n) : n \in 0..MaxNodes}

Returned(op, h, idx, outcomes) ==
    /\ \E o \in outcomes :
          /\ last' = [Called(op, h) EXCEPT !.pos = idx, !.kind = o.kind, !.val = o.val]
          /\ ub' = IF o.kind = "fault" THEN "null_deref" ELSE "none"
    /\ cur' = NoCur
    /\ UNCHANGED <<hstate, hptr, node, nnode, nfreed, box, bfreed, cloneOf>>

\* List::len: g_list_length(pointer)
LenOutcomes(nd, ok, ptr) ==
    IF FwdBad(nd, ok, ptr) THEN AnyCount ELSE {Count(ListLen(nd, ok, ptr))}

\* iter().count(), as in bench_iter
IterCountOutcomes(nd, ok, ptr) ==
    IF IterBad(nd, ok, ptr) THEN AnyCount ELSE {Count(Len(IterNodes(nd, ok, ptr)))}

\* rev_iter().count(), as in bench_iter_rev
RevIterCountOutcomes(nd, ok, ptr) ==
    IF RevIterBad(nd, ok, ptr) THEN AnyCount
    ELSE {Count(Len(RevIterNodes(nd, ok, ptr)))}

\* List::nth: transmute(g_list_nth_data(pointer, n))
ListNth(nd, ok, bx, ptr, n) ==
    LET w == Fwd(nd, ok, ptr, n + 1)
    IN  IF Len(w) = n + 1 THEN {Ref(bx[nd[w[n + 1]].data])}
        ELSE IF FwdStop(nd, ptr, w) = NULL THEN {NullRef}
        ELSE Garbage

\* List::first: (*g_list_first(pointer)).data
ListFirst(nd, ok, bx, ptr) ==
    LET elem == GListFirst(nd, ok, ptr)
    IN  IF BwdBad(nd, ok, ptr) THEN Garbage
        ELSE IF elem = NULL THEN Garbage \cup {Fault}
        ELSE {Ref(bx[nd[elem].data])}

\* List::last: (*g_list_last(pointer)).data
ListLast(nd, ok, bx, ptr) ==
    LET elem == GListLast(nd, ok, ptr)
    IN  IF FwdBad(nd, ok, ptr) THEN Garbage
        ELSE IF elem = NULL THEN Garbage \cup {Fault}
        ELSE {Ref(bx[nd[elem].data])}

CallLen(h) ==
    /\ ub = "none" /\ hstate[h] = "live"
    /\ Returned("len", h, 0, LenOutcomes(node, Ok(nnode, nfreed), hptr[h]))

CallIterCount(h) ==
    /\ ub = "none" /\ hstate[h] = "live"
    /\ Returned("iter", h, 0, IterCountOutcomes(node, Ok(nnode, nfreed), hptr[h]))

CallRevIterCount(h) ==
    /\ ub = "none" /\ hstate[h] = "live"
    /\ Returned("rev_iter", h, 0, RevIterCountOutcomes(node, Ok(nnode, nfreed), hptr[h]))

CallNth(h, n) ==
    /\ ub = "none" /\ hstate[h] = "live"
    /\ Returned("nth", h, n, ListNth(node, Ok(nnode, nfreed), box, hptr[h], n))

\* `_rhs as u32`: the conversion keeps the low 32 bits of the usize.
AsU32(rhs) == rhs.lo

\* Index::index: self.nth(_rhs as u32)
ListIndex(nd, ok, bx, ptr, rhs) == ListNth(nd, ok, bx, ptr, AsU32(rhs))

CallIndex(h, rhs) ==
    /\ ub = "none" /\ hstate[h] = "live"
    /\ \E o \in ListIndex(node, Ok(nnode, nfreed), box, hptr[h], rhs) :
          last' = [Called("index", h) EXCEPT !.pos = rhs.lo, !.hi = rhs.hi,
                                             !.kind = o.kind, !.val = o.val]
    /\ cur' = NoCur
    /\ UNCHANGED <<hstate, hptr, node, nnode, nfreed, box, bfreed, cloneOf, ub>>

CallFirst(h) ==
    /\ ub = "none" /\ hstate[h] = "live"
    /\ Returned("first", h, 0, ListFirst(node, Ok(nnode, nfreed), box, hptr[h]))

CallLast(h) ==
    /\ ub = "none" /\ hstate[h] = "live"
    /\ Returned("last", h, 0, ListLast(node, Ok(nnode, nfreed), box, hptr[h]))

\* Option<&T>
Some(v) == [kind |-> "some", val |-> v]
None == [kind |-> "none", val |-> 0]

\* A slip in RevElem::next: the cursor moves along next, as Elem does.
RevElemNextFollowsNext(nd, bx, pointer) ==
    IF pointer = NULL THEN [ret |-> None, pointer |-> pointer]
    ELSE [ret |-> Some(bx[nd[pointer].data]), pointer |-> nd[pointer].next]

\* Elem::next on a cursor whose pointer is null or an allocated node.
ElemNext(nd, bx, pointer) ==
    IF pointer = NULL THEN [ret |-> None, pointer |-> pointer]
    ELSE [ret |-> Some(bx[nd[pointer].data]), pointer |-> nd[pointer].next]

\* RevElem::next
RevElemNext(nd, bx, pointer) ==
    IF pointer = NULL THEN [ret |-> None, pointer |-> pointer]
    ELSE [ret |-> Some(bx[nd[pointer].data]), pointer |-> nd[pointer].prev]

\* The cursor reads freed memory: what it returns and where it points next is
\* whatever that memory holds.
CursorUndefined(op, h, dir) ==
    /\ ub' = "use_after_free"
    /\ \E p \in Ptr : cur' = [cur EXCEPT !.h = h, !.dir = dir, !.ptr = p]
    /\ last' = [Called(op, h) EXCEPT !.kind = "undefined"]
    /\ UNCHANGED <<hstate, hptr, node, nnode, nfreed, box, bfreed, cloneOf>>

\* A slip in next: the new position is written to the list's pointer.
SteppedMovingList(op, h, r) ==
    /\ cur' = [cur EXCEPT !.yielded = IF r.ret.kind = "some" THEN @ + 1 ELSE @,
                          !.nones = IF r.ret.kind = "none" THEN @ + 1 ELSE @]
    /\ hptr' = [hptr EXCEPT ![h] = r.pointer]
    /\ last' = [Called(op, h) EXCEPT !.kind = r.ret.kind, !.val = r.ret.val]
    /\ UNCHANGED <<hstate, node, nnode, nfreed, box, bfreed, cloneOf, ub>>

\* next() returned r.ret and left the cursor on r.pointer: self is the
\* cursor, and nothing of the list is written.
Stepped(op, h, r) ==
    /\ cur' = [cur EXCEPT !.ptr = r.pointer,
                          !.yielded = IF r.ret.kind = "some" THEN @ + 1 ELSE @,
                          !.nones = IF r.ret.kind = "none" THEN @ + 1 ELSE @]
    /\ last' = [Called(op, h) EXCEPT !.kind = r.ret.kind, !.val = r.ret.val]
    /\ UNCHANGED <<hstate, hptr, node, nnode, nfreed, box, bfreed, cloneOf, ub>>

\* List::iter: Elem { pointer: g_list_first(self.pointer) }
CallIter(h) ==
    /\ ub = "none" /\ hstate[h] = "live"
    /\ LET ok == Ok(nnode, nfreed)
       IN  IF BwdBad(node, ok, hptr[h]) THEN CursorUndefined("elem", h, "fwd")
           ELSE /\ cur' = [NoCur EXCEPT !.h = h, !.dir = "fwd",
                                        !.ptr = GListFirst(node, ok, hptr[h])]
                /\ last' = Called("elem", h)
                /\ UNCHANGED <<hstate, hptr, node, nnode, nfreed, box, bfreed,
                               cloneOf, ub>>

\* List::rev_iter: RevElem { pointer: g_list_last(self.pointer) }
CallRevIter(h) ==
    /\ ub = "none" /\ hstate[h] = "live"
    /\ LET ok == Ok(nnode, nfreed)
       IN  IF FwdBad(node, ok, hptr[h]) THEN CursorUndefined("rev_elem", h, "rev")
           ELSE /\ cur' = [NoCur EXCEPT !.h = h, !.dir = "rev",
                                        !.ptr = GListLast(node, ok, hptr[h])]
                /\ last' = Called("rev_elem", h)
                /\ UNCHANGED <<hstate, hptr, node, nnode, nfreed, box, bfreed,
                               cloneOf, ub>>

\* Elem::next on the cursor of h
CallElemNext(h) ==
    /\ ub = "none" /\ cur.h = h /\ cur.dir = "fwd"
    /\ cur.nones < MaxNones /\ cur.yielded <= MaxNodes
    /\ IF cur.ptr # NULL /\ cur.ptr \notin Ok(nnode, nfreed)
       THEN CursorUndefined("elem_next", h, "fwd")
       ELSE Stepped("elem_next", h, ElemNext(node, box, cur.ptr))

\* RevElem::next on the cursor of h
CallRevElemNext(h) ==
    /\ ub = "none" /\ cur.h = h /\ cur.dir = "rev"
    /\ cur.nones < MaxNones /\ cur.yielded <= MaxNodes
    /\ IF cur.ptr # NULL /\ cur.ptr \notin Ok(nnode, nfreed)
       THEN CursorUndefined("rev_elem_next", h, "rev")
       ELSE Stepped("rev_elem_next", h, RevElemNext(node, box, cur.ptr))

\* The calls that change a list or create or destroy one.
Structural ==
    \/ \E h \in Handles : CallNew(h)
    \/ \E h \in Handles : \E values \in SeqsUpTo(MaxNodes) : CallFromVec(h, values)
    \/ \E h \in Handles : \E v \in Values : CallAppend(h, v)
    \/ \E h \in Handles : \E v \in Values : CallPrepend(h, v)
    \/ \E h \in Handles : \E v \in Values : \E position \in Positions : CallInsert(h, v, position)
    \/ \E h \in Handles : CallReverse(h)
    \/ \E a \in Handles : \E b \in Handles : CallConcat(a, b)
    \/ \E h \in Handles : CallClear(h)
    \/ \E src \in Handles : \E dst \in Handles : CallClone(src, dst)
    \/ \E h \in Handles : CallDrop(h)

\* The calls that only read.
ReadOnly ==
    \/ \E h \in Handles : CallLen(h)
    \/ \E h \in Handles : CallIterCount(h)
    \/ \E h \in Handles : CallRevIterCount(h)
    \/ \E h \in Handles : \E n \in Indices : CallNth(h, n)
    \/ \E h \in Handles : \E rhs \in USizes : CallIndex(h, rhs)
    \/ \E h \in Handles : CallFirst(h)
    \/ \E h \in Handles : CallLast(h)

Next == Structural \/ ReadOnly

Spec == Init /\ [][Next]_vars

\* The program that makes structural calls only.
SpecStructural == Init /\ [][Structural]_vars

\* The calls that make a cursor and step it.
Cursor ==
    \/ \E h \in Handles : CallIter(h)
    \/ \E h \in Handles : CallRevIter(h)
    \/ \E h \in Handles : CallElemNext(h)
    \/ \E h \in Handles : CallRevElemNext(h)

NextCursor == Structural \/ Cursor

\* The program that builds lists and walks them with cursors.
SpecCursor == Init /\ [][NextCursor]_vars

(***************************************************************************)
(* Properties.                                                             *)
(***************************************************************************)
\* The chain of handle h from its pointer on, and the boxes it refers to.
NodesOf(h) == Fwd(node, Ok(nnode, nfreed), hptr[h], Full)
BoxSetOf(h) == Range(BoxesOf(node, NodesOf(h)))
IterOk(h) ==
    /\ ~IterBad(node, Ok(nnode, nfreed), hptr[h])
    /\ ~RevIterBad(node, Ok(nnode, nfreed), hptr[h])

\* C1: after a.concat(b), a.iter() yields a's former elements followed by
\* b's former elements, b's nodes are the nodes of a's chain (absorbed, not
\* copied), and they are still allocated once b has been consumed.
C1_ConcatAbsorbs ==
    [][\A a \in Handles : \A b \in Handles :
          (/\ last'.op = "concat" /\ last'.h = a /\ last'.g = b
           /\ Intact(a) /\ Intact(b))
          => /\ IterSeq(a)' = IterSeq(a) \o IterSeq(b)
             /\ NodesOf(a)' = NodesOf(a) \o NodesOf(b)
             /\ Intact(a)'
             /\ ub' = "none"]_vars

\* C2: after clear() the list is empty (len() returns 0, iter() yields
\* nothing) and usable: a following append(x) yields the one-element list.
C2_ClearEmpties ==
    \A h \in Handles :
        (last.op = "clear" /\ last.h = h) =>
            LET ok == Ok(nnode, nfreed)
                new == nnode + 1
            IN  /\ LenOutcomes(node, ok, hptr[h]) = {Count(0)}
                /\ IterCountOutcomes(node, ok, hptr[h]) = {Count(0)}
                /\ ~FwdBad(node, ok, hptr[h])
                /\ nnode < MaxNodes =>
                     LET r == ListAppend(node, ok, hptr[h], new, Len(box) + 1)
                     IN  Fwd(r.nd, ok \cup {new}, r.ptr, Full) = <<new>>

\* C3: clone() is a deep copy: the clone and the original share no node and
\* no element storage.
C3_CloneSharesNothing ==
    \A src \in Handles : \A dst \in Handles :
        (last.op = "clone" /\ last.h = src /\ last.g = dst /\ last.kind # "undefined")
        => /\ Range(NodesOf(src)) \cap Range(NodesOf(dst)) = {}
           /\ BoxSetOf(src) \cap BoxSetOf(dst) = {}

\* C4: dropping a list destroys every node it owns and the boxed element of
\* each node: none of them remains allocated.
C4_DropDestroysAll ==
    [][\A h \in Handles :
          (last'.op = "drop" /\ last'.h = h /\ Intact(h))
          => /\ Range(NodesOf(h)) \subseteq nfreed'
             /\ BoxSetOf(h) \subseteq bfreed']_vars

\* C5: nth(index) returns the element at index when index < len(), and fails
\* with an explicit out-of-bounds error when index >= len().
C5_NthChecksBounds ==
    \A h \in Handles :
        (last.op = "nth" /\ last.h = h /\ Intact(h)) =>
            LET s == IterSeq(h)
            IN  IF last.pos < Len(s)
                THEN last.kind = "ref" /\ last.val = s[last.pos + 1]
                ELSE last.kind = "error"

\* C6: first() and last() return the head and the tail element of a list
\* that is not empty, and fail with an explicit error on an empty list.
C6_FirstLastCheckEmpty ==
    \A h \in Handles :
        (last.op \in {"first", "last"} /\ last.h = h /\ Intact(h)) =>
            LET s == IterSeq(h)
            IN  IF Len(s) = 0 THEN last.kind = "error"
                ELSE /\ last.kind = "ref"
                     /\ last.val = IF last.op = "first" THEN s[1] ELSE s[Len(s)]

\* The chain of h is sound: every node reachable from the pointer by next and
\* prev links is allocated, the head has no predecessor, the tail has no
\* successor, and next and prev agree.
ChainSound(h) ==
    LET ok == Ok(nnode, nfreed)
        w == IterNodes(node, ok, hptr[h])
    IN  \/ hptr[h] = NULL
        \/ /\ ~BwdBad(node, ok, hptr[h])
           /\ ~FwdBad(node, ok, hptr[h])
           /\ node[w[1]].prev = NULL
           /\ node[w[Len(w)]].next = NULL
           /\ \A i \in 1..(Len(w) - 1) :
                 node[w[i]].next = w[i + 1] /\ node[w[i + 1]].prev = w[i]

\* C7: no operation corrupts the chain of a live list.
C7_ChainNeverCorrupt ==
    \A h \in Handles : hstate[h] = "live" => ChainSound(h)

\* C8: for every live list, len() equals the number of elements iter()
\* yields and the number rev_iter() yields, whatever the calls return.
C8_LenIsIterCount ==
    \A h \in Handles :
        hstate[h] = "live" =>
            LET ok == Ok(nnode, nfreed)
            IN  \A l \in LenOutcomes(node, ok, hptr[h]) :
                \A i \in IterCountOutcomes(node, ok, hptr[h]) :
                \A r \in RevIterCountOutcomes(node, ok, hptr[h]) :
                    l = i /\ l = r

\* C9: the list built from a sequence S by repeated append yields exactly S
\* through iter() and S reversed through rev_iter().
C9_FromSequenceYieldsIt ==
    \A h \in Handles :
        (last.op = "from_vec" /\ last.h = h) =>
            /\ IterOk(h)
            /\ IterSeq(h) = last.arg
            /\ RevIterSeq(h) = Rev(last.arg)

C9_Witness ==
    /\ last.op = "from_vec"
    /\ Len(last.arg) = MaxNodes
    /\ last.arg[1] # last.arg[MaxNodes]
    /\ IterSeq(last.h) = last.arg

C11_InsertPlacesOrAppends ==
    [][\A h \in Handles :
          (last'.op = "insert" /\ last'.h = h /\ Intact(h))
          => LET s == IterSeq(h)
                 p == last'.pos
                 v == last'.arg
             IN  /\ Intact(h)'
                 /\ ListLen(node, Ok(nnode, nfreed), hptr[h])' = Len(s) + 1
                 /\ IterSeq(h)' =
                      IF 0 <= p /\ p < Len(s)
                      THEN SubSeq(s, 1, p) \o v \o SubSeq(s, p + 1, Len(s))
                      ELSE s \o v]_vars

C11_Witness ==
    /\ last.op = "insert"
    /\ last.pos = 1
    /\ Intact(last.h)
    /\ IterSeq(last.h) = <<1, 2, 1>>
    /\ last.arg = <<2>>

\* C12: reverse() turns the sequence of a list into its reversal, the old
\* tail becoming the head the handle designates and the old head the tail,
\* so that len() counts every element; a second reverse() gives back the
\* original order, with the handle on the original head.
C12_ReverseSwapsEnds ==
    [][\A h \in Handles :
          (last'.op = "reverse" /\ last'.h = h /\ Intact(h))
          => LET s == IterSeq(h)
                 head == hptr[h]
                 tail == GListLast(node, Ok(nnode, nfreed), hptr[h])
                 again == ListReverse(node, Ok(nnode, nfreed), hptr[h])'
             IN  /\ IterSeq(h)' = Rev(s)
                 /\ Intact(h)'
                 /\ hptr'[h] = tail
                 /\ GListLast(node, Ok(nnode, nfreed), hptr[h])' = head
                 /\ ListLen(node, Ok(nnode, nfreed), hptr[h])' = Len(s)
                 /\ again.ptr = head
                 /\ WellFormed(again.nd, Ok(nnode, nfreed), again.ptr)
                 /\ ListLen(again.nd, Ok(nnode, nfreed), again.ptr) = Len(s)
                 /\ ValsOf(again.nd, box,
                           Fwd(again.nd, Ok(nnode, nfreed), again.ptr, Full)) = s]_vars

C12_Witness ==
    /\ last.op = "reverse"
    /\ Intact(last.h)
    /\ IterSeq(last.h) = <<2, 1, 1>>
    /\ node[hptr[last.h]].next # NULL
    /\ hptr[last.h] > node[hptr[last.h]].next

\* C13: after append(v) on a list of any length, the empty list included,
\* nth(len() - 1) and last() return v and nth(i) returns what it returned
\* before for every earlier index i; after prepend(v), nth(0) and first()
\* return v and nth(i + 1) returns what nth(i) returned before.
C13_AppendPrependShiftIndices ==
    [][\A h \in Handles :
          (last'.op \in {"append", "prepend"} /\ last'.h = h /\ Intact(h))
          => LET ok == Ok(nnode, nfreed)
                 ok2 == Ok(nnode', nfreed')
                 p2 == hptr'[h]
                 s == IterSeq(h)
                 v == last'.arg[1]
                 n2 == ListLen(node', ok2, p2)
             IN  /\ n2 = Len(s) + 1
                 /\ \A i \in 0..(Len(s) - 1) :
                       ListNth(node, ok, box, hptr[h], i) = {Ref(s[i + 1])}
                 /\ last'.op = "append" =>
                       /\ ListNth(node', ok2, box', p2, n2 - 1) = {Ref(v)}
                       /\ ListLast(node', ok2, box', p2) = {Ref(v)}
                       /\ \A i \in 0..(Len(s) - 1) :
                             ListNth(node', ok2, box', p2, i)
                               = ListNth(node, ok, box, hptr[h], i)
                 /\ last'.op = "prepend" =>
                       /\ ListNth(node', ok2, box', p2, 0) = {Ref(v)}
                       /\ ListFirst(node', ok2, box', p2) = {Ref(v)}
                       /\ \A i \in 0..(Len(s) - 1) :
                             ListNth(node', ok2, box', p2, i + 1)
                               = ListNth(node, ok, box, hptr[h], i)]_vars

C13_Witness ==
    /\ last.op = "prepend"
    /\ last.arg = <<2>>
    /\ Intact(last.h)
    /\ ListFirst(node, Ok(nnode, nfreed), box, hptr[last.h]) = {Ref(2)}
    /\ ListNth(node, Ok(nnode, nfreed), box, hptr[last.h], 1) = {Ref(1)}
    /\ ListNth(node, Ok(nnode, nfreed), box, hptr[last.h], 2) = {Ref(2)}

\* C14: list[i] returns the element at index i when i < len(), and returns
\* no element when i >= len(), whether or not the usize i fits in 32 bits.
C14_IndexKeepsUsizeApart ==
    \A h \in Handles :
        (last.op = "index" /\ last.h = h /\ Intact(h)) =>
            LET s == IterSeq(h)
            IN  IF last.hi = 0 /\ last.pos < Len(s)
                THEN last.kind = "ref" /\ last.val = s[last.pos + 1]
                ELSE last.kind # "ref"

\* C15: making a cursor with iter() or rev_iter() and calling next() on it
\* leaves every list's pointer, every node's links and data and every element
\* as they were, so that iter() yields the same sequence afterwards.
C15_CursorsLeaveListAlone ==
    [][last'.op \in {"elem", "rev_elem", "elem_next", "rev_elem_next"}
          => /\ hptr' = hptr /\ hstate' = hstate
             /\ node' = node /\ nnode' = nnode /\ nfreed' = nfreed
             /\ box' = box /\ bfreed' = bfreed
             /\ \A h \in Handles :
                   Intact(h) => Intact(h)' /\ IterSeq(h)' = IterSeq(h)]_vars

C15_Witness ==
    /\ last.op = "elem_next"
    /\ cur.yielded = 2
    /\ Intact(cur.h)
    /\ IterSeq(cur.h) = <<1, 2, 1>>
    /\ cur.ptr # NULL /\ cur.ptr # hptr[cur.h]

\* C16: on a list of n elements that is not modified, the i-th call of next()
\* on a cursor from iter() (from rev_iter()) returns the i-th element from
\* the head (from the tail) when i <= n and None when i > n; after a None,
\* every call returns None.
C16_CursorEndsAndStaysEnded ==
    [][\A h \in Handles :
          (/\ last'.op \in {"elem_next", "rev_elem_next"} /\ last'.h = h
           /\ cur.h = h /\ Intact(h))
          => LET s == IterSeq(h)
                 calls == cur.yielded + cur.nones
             IN  /\ cur'.yielded + cur'.nones = calls + 1
                 /\ IF calls < Len(s)
                    THEN /\ last'.kind = "some"
                         /\ last'.val = IF cur.dir = "fwd" THEN s[calls + 1]
                                        ELSE s[Len(s) - calls]
                    ELSE last'.kind = "none"
                 /\ cur.nones > 0 => last'.kind = "none"]_vars

C16_Witness ==
    /\ last.op = "rev_elem_next"
    /\ last.kind = "none"
    /\ cur.nones = MaxNones
    /\ cur.yielded = 3
    /\ Intact(cur.h)
    /\ IterSeq(cur.h) = <<1, 2, 2>>

\* C17: whatever calls of new, append, prepend, insert, reverse, concat,
\* clear, clone and drop are made, no node is handed to the native free
\* routine a second time.
C17_NoDoubleFree == ub # "double_free"

\* C18: each of new, from_vec, append, prepend, insert, reverse, concat and
\* clone, applied to lists whose stored pointer is null or an allocated node
\* without predecessor, leaves the list it makes or changes with a stored
\* pointer that is again null or an allocated node without predecessor, and
\* that is null exactly when the list is empty: never after append, prepend
\* or insert, after reverse when it was null before, after concat when both
\* lists were empty, after clone when the source was empty.
C18_PointerIsNullOrHead ==
    [][\A h \in Handles :
          LET AtHead(x) == \/ hptr[x] = NULL
                         \/ /\ hptr[x] \in Ok(nnode, nfreed)
                            /\ node[hptr[x]].prev = NULL
              head2 == \/ hptr'[h] = NULL
                       \/ /\ hptr'[h] \in Ok(nnode', nfreed')
                          /\ node'[hptr'[h]].prev = NULL
          IN  /\ (last'.op \in {"new", "from_vec"} /\ last'.h = h)
                 => head2 /\ (hptr'[h] = NULL <=> last'.arg = <<>>)
              /\ (last'.op \in {"append", "prepend", "insert"} /\ last'.h = h /\ AtHead(h))
                 => head2 /\ hptr'[h] # NULL
              /\ (last'.op = "reverse" /\ last'.h = h /\ AtHead(h))
                 => head2 /\ (hptr'[h] = NULL <=> hptr[h] = NULL)
              /\ \A b \in Handles :
                    (last'.op = "concat" /\ last'.h = h /\ last'.g = b /\ AtHead(h) /\ AtHead(b))
                    => head2 /\ (hptr'[h] = NULL <=> (hptr[h] = NULL /\ hptr[b] = NULL))
              /\ \A src \in Handles :
                    (last'.op = "clone" /\ last'.h = src /\ last'.g = h /\ AtHead(src))
                    => head2 /\ (hptr'[h] = NULL <=> hptr[src] = NULL)]_vars

====
